---- MODULE Spec2Model ----
(***************************************************************************)
(* Chunked-transcription pipeline of Whisnote:                             *)
(*   src/src/utils/audio_splitter.py  AudioSplitter                        *)
(*   src/src/core/transcriber.py      TranscriptionService                 *)
(*                                                                         *)
(* One run of TranscriptionService.transcribe_large_file is modelled as a  *)
(* sequential process whose position is pc.  File sizes are counted in     *)
(* units of 512 KiB (UnitsPerMB units per MiB), so that the 25 MiB ceiling *)
(* and its 0.9 headroom (22.5 MiB) are whole numbers.  A text returned by  *)
(* the remote service is represented by its length, a path by a number:    *)
(* SourcePath for the source, the chunk index for a chunk file.            *)
(***************************************************************************)
EXTENDS Integers, Sequences, FiniteSets, TLC

\* ------------------------------------------------------------------------
\* Bounds of the model
\* ------------------------------------------------------------------------
MaxFrames == 130
MaxTextLen == 13
\* highest byte rate of a source, in 512 KiB units per second (1 MiB/s)
MaxByteRate == 2
\* largest source size, in 512 KiB units, given to calculate_chunk_duration
MaxPlanSize == 60
MaxCalls == 2
MaxSignals == 1
MaxDuration == 2

\* ------------------------------------------------------------------------
\* Program constants
\* ------------------------------------------------------------------------
MAX_FILE_SIZE_MB == 25
CHUNK_OVERLAP_SECONDS == 3
UnitsPerMB == 2
MinChunkSeconds == 60
MaxChunkSeconds == 300
FallbackChunkSeconds == 240
HeadroomNum == 9
HeadroomDen == 10
SleepSeconds == 1
MinSpacingLen == 10

max_size_bytes == MAX_FILE_SIZE_MB * UnitsPerMB
overlap_seconds == CHUNK_OVERLAP_SECONDS

\* ------------------------------------------------------------------------
\* Input sets
\* ------------------------------------------------------------------------
FileSizes == {40, 51, 80, 100, 160}
SampleRates == {1, 2}
Languages == {"zh", "auto", "en"}
TextLens == {0, MaxTextLen - 1, MaxTextLen}

None == -1
SourcePath == -1

Min(a, b) == IF a < b THEN a ELSE b
Max(a, b) == IF a > b THEN a ELSE b

VARIABLES
    file_size,        \* st_size of the source, in 512 KiB units
    frames,           \* len(audio_data): total samples S of the source
    sample_rate,      \* sample rate of the source
    language,         \* language argument of the run
    disk,             \* the files that exist: <<path, first sample, end sample>>
    temp_dir_exists,  \* whether temp_dir exists
    pc,               \* position of the run
    chunk_duration,   \* <<n, d>>: planned chunk duration n/d seconds
    chunk_samples,    \* split_audio_file local
    overlap_samples,  \* split_audio_file local
    chunk_start,      \* split_audio_file local
    chunk_index,      \* split_audio_file local
    split_files,      \* split_audio_file local chunk_files
    chunk_files,      \* transcribe_large_file local chunk_files
    chunk_files_bound,\* 'chunk_files' in locals()
    i,                \* index of the chunk loop
    transcripts,      \* transcribe_large_file local transcripts
    chunk_transcript, \* value returned by transcribe_file for the chunk
    net,              \* requests in flight to the remote service
    request_log,      \* every request issued, in order
    pause,            \* seconds slept since the last request was issued
    tf_file,          \* transcribe_file argument audio_file
    tf_ret,           \* call site transcribe_file returns to
    transcript,       \* transcribe_file local transcript
    tf_value,         \* last value returned by transcribe_file
    tf_returns,       \* every return of transcribe_file: [file, value]
    result,           \* value returned by transcribe_large_file
    source_existed,   \* the source existed when the run started
    split_failed,     \* the except branch of split_audio_file ran
    io_error,         \* some I/O operation of the run failed
    unlink_failed,    \* some unlink of cleanup_chunks failed
    fn_pc,            \* position of a call of one function on its own
    fn_args,          \* the arguments of that call
    fn_ret,           \* the value it returned
    is_recording,     \* RecordingManager.is_recording
    stop_event,       \* RecordingManager.stop_event is set
    main_pc,          \* position of the main thread in start_recording
    input_pc,         \* position of the listener thread of each call
    handler_pc,       \* position of the SIGINT handler
    installed,        \* signal_handler is installed for SIGINT
    elapsed,          \* time.time() - start_time, in loop periods
    calls,            \* calls of start_recording so far
    signals,          \* SIGINT deliveries so far
    stopped           \* the calls during which stop_recording cleared is_recording

vars == <<file_size, frames, sample_rate, language, disk, temp_dir_exists, pc,
          chunk_duration, chunk_samples, overlap_samples, chunk_start,
          chunk_index, split_files, chunk_files, chunk_files_bound, i,
          transcripts, chunk_transcript, net, request_log, pause, tf_file,
          tf_ret, transcript, tf_value, tf_returns, result, source_existed, split_failed,
          io_error, unlink_failed, fn_pc, fn_args, fn_ret,
          is_recording, stop_event, main_pc, input_pc, handler_pc, installed,
          elapsed, calls, signals, stopped>>

fnVars == <<fn_pc, fn_args, fn_ret>>
recVars == <<is_recording, stop_event, main_pc, input_pc, handler_pc, installed,
             elapsed, calls, signals, stopped>>
inputVars == <<file_size, frames, sample_rate, language, source_existed,
               fn_pc, fn_args, fn_ret, recVars>>
splitVars == <<chunk_duration, chunk_samples, overlap_samples, chunk_start,
               chunk_index, split_files>>
tfVars == <<tf_file, tf_ret, transcript>>
netVars == <<net, request_log>>

\* ------------------------------------------------------------------------
\* AudioSplitter: pure parts
\* ------------------------------------------------------------------------

\* need_split: file_size > self.max_size_bytes; False when stat() raises
need_split(size, statOk) == statOk /\ size > max_size_bytes

calculate_chunk_duration_no_floor(size, nframes, rate, metaOk) ==
    IF ~metaOk \/ nframes = 0 \/ size = 0
    THEN <<FallbackChunkSeconds, 1>>
    ELSE LET n == ((max_size_bytes * HeadroomNum) \div HeadroomDen) * nframes
             d == size * rate
         IN  IF n > MaxChunkSeconds * d THEN <<MaxChunkSeconds, 1>> ELSE <<n, d>>

\* calculate_chunk_duration, as the fraction <<n, d>> of seconds:
\* max(60.0, min(300.0, (max_size_bytes * 0.9) / (file_size / total_duration)))
\* with total_duration = frames / samplerate; 240.0 on any exception
\* (unreadable metadata, division by a zero duration or a zero size).
calculate_chunk_duration(size, nframes, rate, metaOk) ==
    IF ~metaOk \/ nframes = 0 \/ size = 0
    THEN <<FallbackChunkSeconds, 1>>
    ELSE LET n == ((max_size_bytes * HeadroomNum) \div HeadroomDen) * nframes
             d == size * rate
         IN  IF n > MaxChunkSeconds * d THEN <<MaxChunkSeconds, 1>>
             ELSE IF n < MinChunkSeconds * d THEN <<MinChunkSeconds, 1>>
             ELSE <<n, d>>

\* int(chunk_duration * sample_rate)
ChunkSamples(dur, rate) == (dur[1] * rate) \div dur[2]

\* int(self.overlap_seconds * sample_rate)
OverlapSamples(rate) == overlap_seconds * rate

\* chunk_end = min(chunk_start + chunk_samples, len(audio_data))
ChunkEnd(start, csamples, total) == Min(start + csamples, total)

NextChunkStartGap(cend, osamples) == cend + osamples

NextChunkStartTwice(cend, osamples) == cend - 2 * osamples

\* chunk_start = chunk_end - overlap_samples
NextChunkStart(cend, osamples) == cend - osamples

\* chunk_path = output_dir / f"{base_name}_chunk_{chunk_index:03d}.wav"
chunk_path(index) == index

\* Path.exists()
exists(path) == \E f \in disk : f[1] = path

\* sf.write(chunk_path, audio_data[chunk_start:chunk_end], sample_rate)
write(files, path, first, last) ==
    {f \in files : f[1] # path} \cup {<<path, first, last>>}

\* Path.unlink()
unlink(files, path) == {f \in files : f[1] # path}

\* the source file as the caller supplied it
SourceFile == <<SourcePath, 0, frames>>

\* ------------------------------------------------------------------------
\* Initial state: a source file (or none) and the arguments of the run
\* ------------------------------------------------------------------------
\* RecordingManager.__init__: no recording, no thread, the event clear
RecorderInit ==
    /\ is_recording = FALSE
    /\ stop_event = FALSE
    /\ main_pc = "idle"
    /\ input_pc = [c \in 1..MaxCalls |-> "none"]
    /\ handler_pc = "idle"
    /\ installed = FALSE
    /\ elapsed = 0
    /\ calls = 0
    /\ signals = 0
    /\ stopped = {}

Init ==
    /\ RecorderInit
    /\ file_size \in FileSizes
    /\ frames \in 0..MaxFrames
    /\ sample_rate \in SampleRates
    /\ language \in Languages
    /\ source_existed \in BOOLEAN
    /\ frames = 0 \/ file_size * sample_rate <= MaxByteRate * frames
    /\ disk = IF source_existed THEN {SourceFile} ELSE {}
    /\ temp_dir_exists = FALSE
    /\ pc = "start"
    /\ chunk_duration = <<0, 1>>
    /\ chunk_samples = 0
    /\ overlap_samples = 0
    /\ chunk_start = 0
    /\ chunk_index = 0
    /\ split_files = << >>
    /\ chunk_files = << >>
    /\ chunk_files_bound = FALSE
    /\ i = 0
    /\ transcripts = << >>
    /\ chunk_transcript = None
    /\ net = {}
    /\ request_log = << >>
    /\ pause = 0
    /\ tf_file = SourcePath
    /\ tf_ret = "none"
    /\ transcript = None
    /\ tf_value = None
    /\ tf_returns = << >>
    /\ result = [kind |-> "None", text |-> -1, parts |-> << >>]
    /\ split_failed = FALSE
    /\ io_error = FALSE
    /\ unlink_failed = FALSE
    /\ fn_pc = "none"
    /\ fn_args = << >>
    /\ fn_ret = << >>

flagVars == <<split_failed, io_error, unlink_failed>>
loopVars == <<i, transcripts, chunk_transcript>>
listVars == <<chunk_files, chunk_files_bound>>

\* ------------------------------------------------------------------------
\* transcribe_large_file, lines 204-218: existence check and need_split
\* ------------------------------------------------------------------------
Enter ==
    /\ pc = "start"
    /\ IF ~exists(SourcePath)
       THEN /\ pc' = "done"
            /\ result' = [kind |-> "None", text |-> None, parts |-> << >>]
            /\ UNCHANGED <<tfVars, io_error>>
       ELSE \E statOk \in BOOLEAN :
            /\ io_error' = ~statOk
            /\ IF need_split(file_size, statOk)
               THEN /\ pc' = "split_mkdir"
                    /\ UNCHANGED tfVars
               ELSE \* return self.transcribe_file(audio_file, language)
                    /\ pc' = "tf_open"
                    /\ tf_file' = SourcePath
                    /\ tf_ret' = "direct"
                    /\ UNCHANGED transcript
            /\ UNCHANGED result
    /\ UNCHANGED <<inputVars, disk, temp_dir_exists, splitVars, listVars,
                   loopVars, netVars, pause, tf_value, tf_returns, split_failed,
                   unlink_failed>>

\* ------------------------------------------------------------------------
\* split_audio_file, line 78: output_dir.mkdir(parents=True, exist_ok=True)
\* stands before the try block, so its exception leaves split_audio_file and
\* is caught by transcribe_large_file (lines 256-258) with chunk_files unbound
\* ------------------------------------------------------------------------
SplitMkdir ==
    /\ pc = "split_mkdir"
    /\ \E mkdirOk \in BOOLEAN :
         IF mkdirOk
         THEN /\ temp_dir_exists' = TRUE
              /\ pc' = "split_read"
              /\ UNCHANGED <<result, io_error>>
         ELSE /\ pc' = "finally"
              /\ result' = [kind |-> "None", text |-> None, parts |-> << >>]
              /\ io_error' = TRUE
              /\ UNCHANGED temp_dir_exists
    /\ UNCHANGED <<inputVars, disk, splitVars, listVars, loopVars, netVars,
                   pause, tfVars, tf_value, tf_returns, split_failed, unlink_failed>>

SplitFailureEmpty == << >>

\* return [file_path] of the except branch, lines 125-127
SplitFailure == <<SourcePath>>

\* ------------------------------------------------------------------------
\* split_audio_file, lines 82-94: read the source and plan the chunks
\* ------------------------------------------------------------------------
SplitRead ==
    /\ pc = "split_read"
    /\ \E readOk \in BOOLEAN, metaOk \in BOOLEAN :
         IF readOk
         THEN /\ chunk_duration' =
                     calculate_chunk_duration(file_size, frames, sample_rate, metaOk)
              /\ overlap_samples' = OverlapSamples(sample_rate)
              /\ chunk_samples' = ChunkSamples(chunk_duration', sample_rate)
              /\ chunk_start' = 0
              /\ chunk_index' = 0
              /\ split_files' = << >>
              /\ io_error' = (io_error \/ ~metaOk)
              /\ pc' = "split_loop"
              /\ UNCHANGED <<listVars, split_failed>>
         ELSE /\ metaOk
              /\ chunk_files' = SplitFailure
              /\ chunk_files_bound' = TRUE
              /\ split_failed' = TRUE
              /\ io_error' = TRUE
              /\ pc' = "post_split"
              /\ UNCHANGED splitVars
    /\ UNCHANGED <<inputVars, disk, temp_dir_exists, loopVars, netVars, pause,
                   tfVars, tf_value, tf_returns, result, unlink_failed>>

\* ------------------------------------------------------------------------
\* split_audio_file, lines 96-123: one iteration of the while loop, or its
\* exit; a failing sf.write takes the except branch
\* ------------------------------------------------------------------------
SplitLoop ==
    /\ pc = "split_loop"
    /\ IF chunk_start < frames
       THEN LET chunk_end == ChunkEnd(chunk_start, chunk_samples, frames)
            IN \E writeOk \in BOOLEAN :
               IF writeOk
               THEN /\ disk' = write(disk, chunk_path(chunk_index),
                                     chunk_start, chunk_end)
                    /\ split_files' = Append(split_files, chunk_path(chunk_index))
                    /\ IF chunk_end >= frames
                       THEN /\ chunk_files' = split_files'
                            /\ chunk_files_bound' = TRUE
                            /\ pc' = "post_split"
                            /\ UNCHANGED <<chunk_start, chunk_index>>
                       ELSE /\ chunk_start' = NextChunkStart(chunk_end, overlap_samples)
                            /\ chunk_index' = chunk_index + 1
                            /\ pc' = "split_loop"
                            /\ UNCHANGED listVars
                    /\ UNCHANGED <<split_failed, io_error>>
               ELSE /\ chunk_files' = SplitFailure
                    /\ chunk_files_bound' = TRUE
                    /\ split_failed' = TRUE
                    /\ io_error' = TRUE
                    /\ pc' = "post_split"
                    /\ UNCHANGED <<disk, split_files, chunk_start, chunk_index>>
       ELSE /\ chunk_files' = split_files
            /\ chunk_files_bound' = TRUE
            /\ pc' = "post_split"
            /\ UNCHANGED <<disk, split_files, chunk_start, chunk_index,
                           split_failed, io_error>>
    /\ UNCHANGED <<inputVars, temp_dir_exists, chunk_duration, chunk_samples,
                   overlap_samples, loopVars, netVars, pause, tfVars, tf_value, tf_returns,
                   result, unlink_failed>>

\* ------------------------------------------------------------------------
\* Values returned by transcribe_large_file
\* ------------------------------------------------------------------------
ReturnNone == [kind |-> "None", text |-> None, parts |-> << >>]
\* the text transcribe_file returned, or None
ReturnValue(t) ==
    IF t = None THEN ReturnNone ELSE [kind |-> "text", text |-> t, parts |-> << >>]
\* the text is self._combine_transcripts(parts)
ReturnCombined(ts) == [kind |-> "combined", text |-> None, parts |-> ts]

\* truth value of an Optional[str]
Truthy(t) == t # None /\ t > 0

\* ------------------------------------------------------------------------
\* transcribe_large_file, lines 224-230: after split_audio_file returned
\* ------------------------------------------------------------------------
SingleElement(files) == Len(files) = 1

PostSplit ==
    /\ pc = "post_split"
    /\ IF SingleElement(chunk_files)
       THEN \* return self.transcribe_file(audio_file, language)
            /\ pc' = "tf_open"
            /\ tf_file' = SourcePath
            /\ tf_ret' = "fallback"
            /\ UNCHANGED <<transcript, loopVars>>
       ELSE /\ pc' = "loop"
            /\ i' = 0
            /\ transcripts' = << >>
            /\ UNCHANGED <<chunk_transcript, tfVars>>
    /\ UNCHANGED <<inputVars, disk, temp_dir_exists, splitVars, listVars,
                   netVars, pause, tf_value, tf_returns, result, flagVars>>

\* ------------------------------------------------------------------------
\* transcribe_large_file, lines 232-235: head of the chunk loop
\* ------------------------------------------------------------------------
ChunkAtReversed(files, index) == files[Len(files) - index]

\* for i, chunk_file in enumerate(chunk_files)
ChunkAt(files, index) == files[index + 1]

ChunkLoop ==
    /\ pc = "loop"
    /\ IF i < Len(chunk_files)
       THEN /\ pc' = "tf_open"
            /\ tf_file' = ChunkAt(chunk_files, i)
            /\ tf_ret' = "chunk"
            /\ UNCHANGED transcript
       ELSE /\ pc' = "combine"
            /\ UNCHANGED tfVars
    /\ UNCHANGED <<inputVars, disk, temp_dir_exists, splitVars, listVars,
                   loopVars, netVars, pause, tf_value, tf_returns, result, flagVars>>

\* ------------------------------------------------------------------------
\* transcribe_file
\* ------------------------------------------------------------------------
Request(endpoint, file) == [endpoint |-> endpoint, file |-> file]

\* the responses of the primary endpoint: a failure (network error, timeout,
\* HTTP error status, unreadable body) or a text, adequate or not by
\* _has_adequate_punctuation / _has_word_spacing (both False below 10 chars)
PrimaryResponses ==
    {[ok |-> FALSE, text |-> None, adequate |-> FALSE]} \cup
    {r \in [ok : {TRUE}, text : TextLens, adequate : BOOLEAN] :
        r.adequate => r.text >= MinSpacingLen}

\* the values of _transcribe_with_timestamps: None on any exception, else the
\* processed text
SecondaryResults == {None} \cup TextLens

\* return of transcribe_file to its call site
Return(v) ==
    /\ tf_value' = v
    /\ tf_returns' = Append(tf_returns, [file |-> tf_file, value |-> v])
    /\ IF tf_ret = "chunk"
       THEN /\ chunk_transcript' = v
            /\ pc' = "chunk_result"
            /\ UNCHANGED result
       ELSE /\ result' = ReturnValue(v)
            /\ pc' = IF tf_ret = "direct" THEN "done" ELSE "finally"
            /\ UNCHANGED chunk_transcript

\* lines 110-115: return transcript if transcript else None
TextOrNone(t) == IF Truthy(t) THEN t ELSE None

\* lines 49-81: existence check, then the POST to the primary endpoint
TfOpen ==
    /\ pc = "tf_open"
    /\ IF ~exists(tf_file)
       THEN /\ Return(None)
            /\ UNCHANGED <<netVars, pause>>
       ELSE /\ net' = net \cup {Request("primary", tf_file)}
            /\ request_log' = Append(request_log,
                   [endpoint |-> "primary", file |-> tf_file,
                    pause_before |-> pause])
            /\ pause' = 0
            /\ pc' = "tf_primary"
            /\ UNCHANGED <<tf_value, tf_returns, result, chunk_transcript>>
    /\ UNCHANGED <<inputVars, disk, temp_dir_exists, splitVars, listVars, i,
                   transcripts, tfVars, flagVars>>

\* line 102: Config.USE_TIMESTAMPED_FOR_PUNCTUATION and language in ["zh", "auto"]
UseTimestamped(lang) == lang \in {"zh", "auto"}

\* lines 83-125: the primary response arrives
TfPrimaryResponse ==
    /\ pc = "tf_primary"
    /\ \E resp \in PrimaryResponses :
         IF ~resp.ok
         THEN /\ net' = net \ {Request("primary", tf_file)}
              /\ Return(None)
              /\ UNCHANGED <<request_log, transcript>>
         ELSE IF resp.adequate \/ ~UseTimestamped(language)
         THEN /\ net' = net \ {Request("primary", tf_file)}
              /\ transcript' = resp.text
              /\ Return(TextOrNone(resp.text))
              /\ UNCHANGED request_log
         ELSE \* improved_transcript = self._transcribe_with_timestamps(...)
              /\ net' = (net \ {Request("primary", tf_file)})
                            \cup {Request("timestamped", tf_file)}
              /\ request_log' = Append(request_log,
                     [endpoint |-> "timestamped", file |-> tf_file,
                      pause_before |-> pause])
              /\ transcript' = resp.text
              /\ pc' = "tf_secondary"
              /\ UNCHANGED <<tf_value, tf_returns, result, chunk_transcript>>
    /\ UNCHANGED <<inputVars, disk, temp_dir_exists, splitVars, listVars, i,
                   transcripts, pause, tf_file, tf_ret, flagVars>>

\* lines 103-115 and 412-444: the secondary call returns
TfSecondaryResponse ==
    /\ pc = "tf_secondary"
    /\ \E improved_transcript \in SecondaryResults :
         /\ net' = net \ {Request("timestamped", tf_file)}
         /\ transcript' = IF Truthy(improved_transcript)
                             /\ improved_transcript > transcript
                          THEN improved_transcript ELSE transcript
         /\ Return(TextOrNone(transcript'))
    /\ UNCHANGED <<inputVars, disk, temp_dir_exists, splitVars, listVars, i,
                   transcripts, request_log, pause, tf_file, tf_ret, flagVars>>

\* ------------------------------------------------------------------------
\* transcribe_large_file, lines 236-245: body of the chunk loop after
\* transcribe_file returned
\* ------------------------------------------------------------------------
\* time.sleep(1) stands in the success branch only
SleepAfter(chunk_text) == IF Truthy(chunk_text) THEN SleepSeconds ELSE 0

NextIndexAbort(index, chunk_text) ==
    IF chunk_text # None /\ chunk_text > 0 THEN index + 1 ELSE Len(chunk_files)

NextIndexSkip(index, chunk_text) == index + 2

\* the loop goes on to the next chunk whatever the outcome
NextIndex(index, chunk_text) == index + 1

CollectInFront(ts, index, text, file) ==
    <<[index |-> index, text |-> text, file |-> file]>> \o ts

\* lines 237-241: transcripts.append({"index": i, "text": ..., "file": ...})
Collect(ts, index, text, file) ==
    Append(ts, [index |-> index, text |-> text, file |-> file])

ChunkResult ==
    /\ pc = "chunk_result"
    /\ transcripts' = IF Truthy(chunk_transcript)
                      THEN Collect(transcripts, i, chunk_transcript,
                                   ChunkAt(chunk_files, i))
                      ELSE transcripts
    /\ pause' = pause + SleepAfter(chunk_transcript)
    /\ i' = NextIndex(i, chunk_transcript)
    /\ pc' = "loop"
    /\ UNCHANGED <<inputVars, disk, temp_dir_exists, splitVars, listVars,
                   chunk_transcript, netVars, tfVars, tf_value, tf_returns, result,
                   flagVars>>

\* ------------------------------------------------------------------------
\* transcribe_large_file, lines 247-254
\* ------------------------------------------------------------------------
Combine ==
    /\ pc = "combine"
    /\ result' = IF transcripts # << >>
                 THEN ReturnCombined(transcripts) ELSE ReturnNone
    /\ pc' = "finally"
    /\ UNCHANGED <<inputVars, disk, temp_dir_exists, splitVars, listVars,
                   loopVars, netVars, pause, tfVars, tf_value, tf_returns, flagVars>>

\* ------------------------------------------------------------------------
\* transcribe_large_file, lines 259-268: the finally block
\* ------------------------------------------------------------------------
Range(seq) == {seq[k] : k \in 1..Len(seq)}

\* cleanup_chunks: unlink every listed file that exists; a failing unlink is
\* logged and the loop goes on
cleanup_chunks(files, listed, undeletable) ==
    {f \in files : f[1] \notin Range(listed) \/ f[1] \in undeletable}

\* the files cleanup is applied to: chunk_files when the name is bound
CleanupList == IF chunk_files_bound THEN chunk_files ELSE << >>

Finally ==
    /\ pc = "finally"
    /\ \E undeletable \in SUBSET {q \in Range(CleanupList) : exists(q)} :
         /\ disk' = cleanup_chunks(disk, CleanupList, undeletable)
         /\ unlink_failed' = (undeletable # {})
    /\ \E rmdirOk \in BOOLEAN :
         \* temp_dir.rmdir() succeeds on an empty directory only
         temp_dir_exists' =
             IF temp_dir_exists /\ rmdirOk
                /\ {f \in disk' : f[1] # SourcePath} = {}
             THEN FALSE ELSE temp_dir_exists
    /\ pc' = "done"
    /\ UNCHANGED <<inputVars, splitVars, listVars, loopVars, netVars, pause,
                   tfVars, tf_value, tf_returns, result, split_failed, io_error>>

Next ==
    \/ Enter
    \/ SplitMkdir
    \/ SplitRead
    \/ SplitLoop
    \/ PostSplit
    \/ ChunkLoop
    \/ TfOpen
    \/ TfPrimaryResponse
    \/ TfSecondaryResponse
    \/ ChunkResult
    \/ Combine
    \/ Finally

Spec == Init /\ [][Next]_vars

\* ------------------------------------------------------------------------
\* Properties
\* ------------------------------------------------------------------------
IsChunk(f) == f[1] # SourcePath
FileOf(path) == CHOOSE f \in disk : f[1] = path
PrimaryCount(path) ==
    Cardinality({k \in 1..Len(request_log) :
                    /\ request_log[k].endpoint = "primary"
                    /\ request_log[k].file = path})
MultiChunk == chunk_files_bound /\ Len(chunk_files) >= 2

\* C1: when transcribe_large_file has returned, the source audio file that
\* existed at the call (and holds audio) still exists with its content
\* unchanged.
SourceNeverDeleted ==
    (pc = "done" /\ source_existed /\ frames > 0) => SourceFile \in disk

\* C2: when transcribe_large_file has returned on the split path and no
\* unlink failed, no chunk file is left (the temp directory is empty).
ChunksDeletedAfterRun ==
    (pc = "done" /\ chunk_files_bound /\ ~unlink_failed)
        => {f \in disk : IsChunk(f)} = {}

\* C3: a successful split starts at sample 0, ends at sample S, covers every
\* sample of [0, S), numbers its chunks 0, 1, 2, ... and starts every chunk
\* overlap_samples before the end of the chunk before it.
SplitCoversSource ==
    (pc = "post_split" /\ ~split_failed) =>
        LET n == Len(chunk_files) IN
        /\ \A k \in 1..n : chunk_files[k] = chunk_path(k - 1) /\ exists(chunk_files[k])
        /\ \A s \in 0..(frames - 1) :
               \E f \in disk : IsChunk(f) /\ f[2] <= s /\ s < f[3]
        /\ n > 0 => /\ FileOf(chunk_files[1])[2] = 0
                    /\ FileOf(chunk_files[n])[3] = frames
        /\ \A k \in 1..(n - 1) :
               FileOf(chunk_files[k + 1])[2] =
                   FileOf(chunk_files[k])[3] - overlap_samples
        /\ overlap_samples < chunk_samples

SplitCoversSourceWitness ==
    pc = "post_split" /\ ~split_failed /\ Len(chunk_files) >= 3

\* C4: when size and duration of the source were readable, every chunk file
\* written holds at most max_size_bytes bytes (its samples times the source's
\* bytes per sample), and so does a chunk of the planned duration.
ChunkWithinCeiling ==
    (~io_error /\ pc \in {"split_loop", "post_split"}) =>
        /\ \A f \in disk :
               IsChunk(f) => (f[3] - f[2]) * file_size <= max_size_bytes * frames
        /\ frames > 0 =>
               chunk_duration[1] * sample_rate * file_size
                   <= max_size_bytes * frames * chunk_duration[2]

\* C5: a source above the ceiling that holds audio and is split without an
\* I/O error gives at least 2 chunks, and the whole source is never sent.
OversizeSourceIsSplit ==
    /\ (pc = "post_split" /\ ~io_error /\ frames > 0) => Len(chunk_files) >= 2
    /\ (need_split(file_size, TRUE) /\ ~io_error /\ frames > 0) =>
           \A k \in 1..Len(request_log) : request_log[k].file # SourcePath

\* C6: for a source that holds audio, split_audio_file returns a non-empty
\* list, and a list of exactly one element holds the source itself.
SingleElementIsSource ==
    (pc = "post_split" /\ frames > 0) =>
        /\ Len(chunk_files) >= 1
        /\ Len(chunk_files) = 1 => chunk_files[1] = SourcePath

\* C7: when the read or a chunk write fails, split_audio_file returns the
\* one-element list of the unmodified source, and transcribe_large_file sends
\* the source once to the primary endpoint and returns what transcribe_file
\* returned for it.
SplitFailureFallsBack ==
    /\ (pc = "post_split" /\ split_failed) =>
           chunk_files = <<SourcePath>> /\ SourceFile \in disk
    /\ (pc \in {"finally", "done"} /\ split_failed) =>
           /\ PrimaryCount(SourcePath) = 1
           /\ \A k \in 1..Len(request_log) : request_log[k].file = SourcePath
           /\ result = ReturnValue(tf_value)

SplitFailureFallsBackWitness ==
    /\ pc = "done"
    /\ split_failed
    /\ Len(split_files) >= 1
    /\ result.kind = "text"

\* C8: on the multi-chunk path at most one request is in flight, the request
\* in flight is the one of the chunk the loop is at, and the primary requests
\* were issued in ascending chunk order.
ChunkRequestsSequential ==
    /\ Cardinality(net) <= 1
    /\ MultiChunk =>
        /\ \A r \in net : r.file = chunk_files[i + 1]
        /\ \A a, b \in 1..Len(request_log) :
               (/\ a < b
                /\ request_log[a].endpoint = "primary"
                /\ request_log[b].endpoint = "primary")
                   => request_log[a].file < request_log[b].file

ChunkRequestsSequentialWitness ==
    MultiChunk /\ pc = "tf_primary" /\ i >= 1 /\ net # {}

\* C9: every chunk request after the first one is preceded by a pause of
\* SleepSeconds since the request before it.
PauseBetweenRequests ==
    \A k \in 1..Len(request_log) :
        (/\ request_log[k].endpoint = "primary"
         /\ request_log[k].file # SourcePath
         /\ request_log[k].file # chunk_path(0))
            => request_log[k].pause_before >= SleepSeconds

SucceededChunks ==
    {tf_returns[k].file : k \in {j \in 1..Len(tf_returns) :
                                    Truthy(tf_returns[j].value)}}

PartialTranscriptReturned ==
    (pc = "done" /\ chunk_files_bound /\ Len(chunk_files) # 1) =>
        /\ result.kind = "None" <=> SucceededChunks = {}
        /\ SucceededChunks # {} =>
             /\ result.kind = "combined"
             /\ Len(result.parts) = Cardinality(SucceededChunks)
             /\ \A k \in 1..Len(result.parts) :
                    /\ chunk_path(result.parts[k].index) \in SucceededChunks
                    /\ result.parts[k].file = chunk_path(result.parts[k].index)
             /\ \A a, b \in 1..Len(result.parts) :
                    a < b => result.parts[a].index < result.parts[b].index

PartialTranscriptReturnedWitness ==
    /\ pc = "done"
    /\ MultiChunk
    /\ Len(chunk_files) = 3
    /\ result.kind = "combined"
    /\ Len(result.parts) = 2
    /\ result.parts[1].index = 0
    /\ result.parts[2].index = 2

\* ------------------------------------------------------------------------
\* A function called on its own: no run of transcribe_large_file is going on
\* ------------------------------------------------------------------------
runVars == <<file_size, frames, sample_rate, language, disk, temp_dir_exists,
             pc, chunk_duration, chunk_samples, overlap_samples, chunk_start,
             chunk_index, split_files, chunk_files, chunk_files_bound, i,
             transcripts, chunk_transcript, net, request_log, pause, tf_file,
             tf_ret, transcript, tf_value, tf_returns, result, source_existed,
             split_failed, io_error, unlink_failed, recVars>>

NoRun ==
    /\ RecorderInit
    /\ file_size = 0
    /\ frames = 0
    /\ sample_rate = 1
    /\ language = "zh"
    /\ source_existed = FALSE
    /\ disk = {}
    /\ temp_dir_exists = FALSE
    /\ pc = "idle"
    /\ chunk_duration = <<0, 1>>
    /\ chunk_samples = 0
    /\ overlap_samples = 0
    /\ chunk_start = 0
    /\ chunk_index = 0
    /\ split_files = << >>
    /\ chunk_files = << >>
    /\ chunk_files_bound = FALSE
    /\ i = 0
    /\ transcripts = << >>
    /\ chunk_transcript = None
    /\ net = {}
    /\ request_log = << >>
    /\ pause = 0
    /\ tf_file = SourcePath
    /\ tf_ret = "none"
    /\ transcript = None
    /\ tf_value = None
    /\ tf_returns = << >>
    /\ result = ReturnNone
    /\ split_failed = FALSE
    /\ io_error = FALSE
    /\ unlink_failed = FALSE

\* ------------------------------------------------------------------------
\* AudioSplitter.calculate_chunk_duration on every size, length and rate
\* ------------------------------------------------------------------------
PlanInit ==
    /\ NoRun
    /\ fn_pc = "plan_call"
    /\ fn_args \in [size : 0..MaxPlanSize, nframes : 0..MaxFrames,
                    rate : SampleRates, metaOk : BOOLEAN]
    /\ fn_ret = << >>

PlanApply ==
    /\ fn_pc = "plan_call"
    /\ fn_ret' = calculate_chunk_duration(fn_args.size, fn_args.nframes,
                                          fn_args.rate, fn_args.metaOk)
    /\ fn_pc' = "plan_done"
    /\ UNCHANGED <<runVars, fn_args>>

PlanNext == PlanApply

PlanSpec == PlanInit /\ [][PlanNext]_vars

\* C12: calculate_chunk_duration returns a duration in [60, 300] seconds: the
\* fallback 240 when the metadata is unreadable or the duration or the size
\* is zero, else 0.9 * max_size_bytes / bytes_per_second clamped to [60, 300].
ChunkDurationInRange ==
    fn_pc = "plan_done" =>
        LET n  == fn_ret[1]
            d  == fn_ret[2]
            cn == 9 * max_size_bytes * fn_args.nframes
            cd == 10 * fn_args.size * fn_args.rate
            readable == fn_args.metaOk /\ fn_args.nframes > 0 /\ fn_args.size > 0
        IN  /\ d > 0
            /\ 60 * d <= n /\ n <= 300 * d
            /\ ~readable => n = 240 * d
            /\ readable =>
                 /\ cn < 60 * cd => n = 60 * d
                 /\ cn > 300 * cd => n = 300 * d
                 /\ (60 * cd <= cn /\ cn <= 300 * cd) => n * cd = cn * d

ChunkDurationInRangeWitness ==
    /\ fn_pc = "plan_done"
    /\ fn_args.metaOk
    /\ 60 * fn_ret[2] < fn_ret[1]
    /\ fn_ret[1] < 300 * fn_ret[2]

\* ------------------------------------------------------------------------
\* Texts as sequences of characters; a character outside ASCII is written as
\* its code point
\* ------------------------------------------------------------------------
MaxHeurLen == 52
MaxMarks == 3

MinPunctuationLen == 20
PunctuationPercent == 2
ShortTextLen == 30
SpacingPercent == 5

punctuation_chars ==
    {"U+3002", "U+FF0C", "U+FF01", "U+FF1F", "U+FF1B", "U+FF1A", "\"",
     "U+FF08", "U+FF09", "U+3010", "U+3011", "U+300A", "U+300B", "U+3001"}

RECURSIVE CountIn(_, _)
CountIn(text, chars) ==
    IF text = << >> THEN 0
    ELSE (IF Head(text) \in chars THEN 1 ELSE 0) + CountIn(Tail(text), chars)

_has_adequate_punctuation_strict(text) ==
    IF Len(text) = 0 \/ Len(text) < MinPunctuationLen THEN FALSE
    ELSE CountIn(text, punctuation_chars) * 100 > PunctuationPercent * Len(text)

_has_adequate_punctuation(text) ==
    IF Len(text) = 0 \/ Len(text) < MinPunctuationLen THEN FALSE
    ELSE CountIn(text, punctuation_chars) * 100 >= PunctuationPercent * Len(text)

_has_word_spacing_any_length(text) ==
    LET space_count == CountIn(text, {" "})
    IN  IF Len(text) = 0 THEN FALSE
        ELSE IF space_count = 0 THEN FALSE
        ELSE IF Len(text) < ShortTextLen THEN space_count > 0
        ELSE space_count * 100 >= SpacingPercent * Len(text)

_has_word_spacing(text) ==
    LET space_count == CountIn(text, {" "})
    IN  IF Len(text) = 0 \/ Len(text) < MinSpacingLen THEN FALSE
        ELSE IF space_count = 0 THEN FALSE
        ELSE IF Len(text) < ShortTextLen THEN space_count > 0
        ELSE space_count * 100 >= SpacingPercent * Len(text)

\* a text of n characters: p copies of mark, then s spaces, then letters
MakeText(n, mark, p, s) ==
    [k \in 1..n |-> IF k <= p THEN mark ELSE IF k <= p + s THEN " " ELSE "x"]

Marks == {"U+3002", "U+3001", "\"", ".", "'"}

\* ------------------------------------------------------------------------
\* The two heuristics of transcribe_file on every text of the family
\* ------------------------------------------------------------------------
HeurInit ==
    /\ NoRun
    /\ fn_pc = "heur_call"
    /\ \E n \in 0..MaxHeurLen, mark \in Marks, p \in 0..MaxMarks, s \in 0..MaxMarks :
          /\ p + s <= n
          /\ fn_args = [text |-> MakeText(n, mark, p, s)]
    /\ fn_ret = << >>

HeurApply ==
    /\ fn_pc = "heur_call"
    /\ fn_ret' = [has_punctuation |-> _has_adequate_punctuation(fn_args.text),
                  has_spacing |-> _has_word_spacing(fn_args.text)]
    /\ fn_pc' = "heur_done"
    /\ UNCHANGED <<runVars, fn_args>>

HeurNext == HeurApply

HeurSpec == HeurInit /\ [][HeurNext]_vars

Recognised(text) == Cardinality({k \in 1..Len(text) : text[k] \in punctuation_chars})

Spaces(text) == Cardinality({k \in 1..Len(text) : text[k] = " "})

\* C19 as stated: a non-empty text has adequate spacing iff it has 30 or more
\* characters and a space density of at least 5%, or fewer than 30 characters
\* and at least one space.
SpacingAdequateAsStated ==
    (fn_pc = "heur_done" /\ Len(fn_args.text) > 0) =>
        (fn_ret.has_spacing <=>
            \/ Len(fn_args.text) >= 30 /\ 100 * Spaces(fn_args.text) >= 5 * Len(fn_args.text)
            \/ Len(fn_args.text) < 30 /\ Spaces(fn_args.text) >= 1)

\* C19: a text has adequate spacing iff it has 30 or more characters and a
\* space density of at least 5%, or 10 to 29 characters and at least one
\* space; a text of fewer than 10 characters never has adequate spacing.
SpacingAdequate ==
    fn_pc = "heur_done" =>
        (fn_ret.has_spacing <=>
            \/ Len(fn_args.text) >= 30 /\ 100 * Spaces(fn_args.text) >= 5 * Len(fn_args.text)
            \/ /\ 10 <= Len(fn_args.text)
               /\ Len(fn_args.text) < 30
               /\ Spaces(fn_args.text) >= 1)

SpacingAdequateWitness ==
    /\ fn_pc = "heur_done"
    /\ Len(fn_args.text) = 10
    /\ Spaces(fn_args.text) = 1
    /\ fn_ret.has_spacing

\* C20: a text has adequate punctuation iff it has at least 20 characters and
\* its recognised punctuation characters are at least 2% of its length; a
\* 25-character text is adequate with one such character and not with none.
PunctuationAdequate ==
    fn_pc = "heur_done" =>
        /\ fn_ret.has_punctuation <=>
              /\ Len(fn_args.text) >= 20
              /\ 100 * Recognised(fn_args.text) >= 2 * Len(fn_args.text)
        /\ (Len(fn_args.text) = 25 /\ Recognised(fn_args.text) = 1) => fn_ret.has_punctuation
        /\ (Len(fn_args.text) = 25 /\ Recognised(fn_args.text) = 0) => ~fn_ret.has_punctuation

PunctuationAdequateWitness ==
    /\ fn_pc = "heur_done"
    /\ Len(fn_args.text) = 25
    /\ Recognised(fn_args.text) = 1
    /\ fn_ret.has_punctuation

\* ------------------------------------------------------------------------
\* transcribe_file on texts of characters: the primary response, the two
\* heuristics, the secondary call and the choice between the two texts
\* ------------------------------------------------------------------------
Absent == [absent |-> TRUE, text |-> << >>]

Text(t) == [absent |-> FALSE, text |-> t]

\* the processed text of the timestamp-annotated call, m characters
SecondaryText(m) == [k \in 1..m |-> "y"]

\* primary responses: an exception before the text is read, or a text
PrimaryTexts ==
    {Absent} \cup
    {Text(MakeText(n, mark, p, s)) :
        n \in 0..MaxHeurLen, mark \in Marks, p \in 0..MaxMarks, s \in 0..MaxMarks}

\* values of _transcribe_with_timestamps: None, or a text
ImprovedTexts == {Absent} \cup {Text(SecondaryText(m)) : m \in 0..(MaxHeurLen + 1)}

NeedsImprovement(t) == ~_has_adequate_punctuation(t) /\ ~_has_word_spacing(t)

ChooseImproved(t, improved) == improved.text

ChooseOrEqual(t, improved) ==
    IF ~improved.absent /\ Len(improved.text) > 0 /\ Len(improved.text) >= Len(t)
    THEN improved.text
    ELSE t

\* if improved_transcript and len(improved_transcript) > len(transcript)
Choose(t, improved) ==
    IF ~improved.absent /\ Len(improved.text) > 0 /\ Len(improved.text) > Len(t)
    THEN improved.text
    ELSE t

TextAlways(t) == Text(t)

\* return transcript if it is non-empty, else None
TextOrAbsent(t) == IF Len(t) > 0 THEN Text(t) ELSE Absent

TranscribeInit ==
    /\ NoRun
    /\ fn_pc = "tf_call"
    /\ fn_args \in [primary : PrimaryTexts, language : Languages]
    /\ fn_ret = [calls |-> << >>, improved |-> Absent, value |-> Absent]

TranscribePrimary ==
    /\ fn_pc = "tf_call"
    /\ IF fn_args.primary.absent
       THEN /\ fn_ret' = [fn_ret EXCEPT !.calls = <<"primary">>]
            /\ fn_pc' = "tf_done"
       ELSE IF NeedsImprovement(fn_args.primary.text) /\ UseTimestamped(fn_args.language)
       THEN /\ fn_ret' = [fn_ret EXCEPT !.calls = <<"primary", "secondary">>]
            /\ fn_pc' = "tf_secondary"
       ELSE /\ fn_ret' = [fn_ret EXCEPT !.calls = <<"primary">>,
                                        !.value = TextOrAbsent(fn_args.primary.text)]
            /\ fn_pc' = "tf_done"
    /\ UNCHANGED <<runVars, fn_args>>

TranscribeSecondary ==
    /\ fn_pc = "tf_secondary"
    /\ \E improved \in ImprovedTexts :
          fn_ret' = [fn_ret EXCEPT
                        !.improved = improved,
                        !.value = TextOrAbsent(Choose(fn_args.primary.text, improved))]
    /\ fn_pc' = "tf_done"
    /\ UNCHANGED <<runVars, fn_args>>

TranscribeNext == TranscribePrimary \/ TranscribeSecondary

TranscribeSpec == TranscribeInit /\ [][TranscribeNext]_vars

SecondaryCalls == Cardinality({k \in 1..Len(fn_ret.calls) : fn_ret.calls[k] = "secondary"})

\* C15: after a primary text, the secondary call is made iff neither heuristic
\* passes and the language is zh or auto, and at most once; the returned text
\* is the secondary result iff it is strictly longer than the primary text,
\* else the primary text is kept.
SecondaryCallWhenNeeded ==
    (fn_pc = "tf_done" /\ ~fn_args.primary.absent) =>
        LET t == fn_args.primary.text
            called == SecondaryCalls > 0
            longer == /\ called
                      /\ ~fn_ret.improved.absent
                      /\ Len(fn_ret.improved.text) > Len(t)
        IN  /\ SecondaryCalls <= 1
            /\ called <=> (/\ ~_has_adequate_punctuation(t)
                           /\ ~_has_word_spacing(t)
                           /\ fn_args.language \in {"zh", "auto"})
            /\ longer => fn_ret.value = Text(fn_ret.improved.text)
            /\ (~longer /\ Len(t) > 0) => fn_ret.value = Text(t)
            /\ (~longer /\ Len(t) = 0) => fn_ret.value.absent

SecondaryCallWhenNeededWitness ==
    /\ fn_pc = "tf_done"
    /\ ~fn_args.primary.absent
    /\ Len(fn_args.primary.text) = 25
    /\ SecondaryCalls = 1
    /\ ~fn_ret.improved.absent
    /\ Len(fn_ret.improved.text) = 25
    /\ fn_ret.value = Text(fn_args.primary.text)

\* C16 as stated: transcribe_file returns absent whenever the primary response
\* carries empty text, for every language.
EmptyPrimaryIsAbsentAsStated ==
    (fn_pc = "tf_done" /\ ~fn_args.primary.absent /\ Len(fn_args.primary.text) = 0) =>
        fn_ret.value.absent

\* C16: when the primary response carries empty text, transcribe_file returns
\* absent iff the language is neither zh nor auto or the secondary call gives
\* no non-empty text; otherwise it returns the secondary text.
EmptyPrimaryIsAbsent ==
    (fn_pc = "tf_done" /\ ~fn_args.primary.absent /\ Len(fn_args.primary.text) = 0) =>
        LET rescued == /\ fn_args.language \in {"zh", "auto"}
                       /\ ~fn_ret.improved.absent
                       /\ Len(fn_ret.improved.text) > 0
        IN  /\ fn_ret.value.absent <=> ~rescued
            /\ rescued => fn_ret.value = Text(fn_ret.improved.text)

EmptyPrimaryIsAbsentWitness ==
    /\ fn_pc = "tf_done"
    /\ ~fn_args.primary.absent
    /\ Len(fn_args.primary.text) = 0
    /\ fn_args.language = "zh"
    /\ SecondaryCalls = 1
    /\ ~fn_ret.improved.absent
    /\ Len(fn_ret.improved.text) = 0
    /\ fn_ret.value.absent

\* C17: no lower-level component propagates an exception to its caller; in
\* particular split_audio_file, creation of the output directory included,
\* always returns a list, so that transcribe_large_file has chunk_files bound
\* whenever it called split_audio_file on an existing readable-size source.
SplitNeverRaises ==
    (pc \in {"finally", "done"} /\ source_existed /\ frames > 0 /\ tf_ret # "direct") =>
        chunk_files_bound

\* ------------------------------------------------------------------------
\* str.split, str.join, str.strip and str.lower on texts of characters
\* ------------------------------------------------------------------------
RECURSIVE SplitFrom(_, _, _)
SplitFrom(text, k, word) ==
    IF k > Len(text)
    THEN (IF Len(word) = 0 THEN << >> ELSE <<word>>)
    ELSE IF text[k] = " "
    THEN (IF Len(word) = 0 THEN << >> ELSE <<word>>) \o SplitFrom(text, k + 1, << >>)
    ELSE SplitFrom(text, k + 1, Append(word, text[k]))

\* text.split(): the maximal runs of non-space characters
split(text) == SplitFrom(text, 1, << >>)

\* " ".join(parts)
RECURSIVE join(_)
join(parts) ==
    IF Len(parts) = 0 THEN << >>
    ELSE IF Len(parts) = 1 THEN parts[1]
    ELSE parts[1] \o <<" ">> \o join(Tail(parts))

\* text.strip()
strip(text) ==
    LET inked == {k \in 1..Len(text) : text[k] # " "}
    IN  IF inked = {} THEN << >>
        ELSE SubSeq(text, CHOOSE k \in inked : \A j \in inked : k <= j,
                          CHOOSE k \in inked : \A j \in inked : k >= j)

LowerChar(c) ==
    IF c = "A" THEN "a" ELSE IF c = "B" THEN "b" ELSE IF c = "C" THEN "c" ELSE c

\* word.lower()
lower(word) == [k \in 1..Len(word) |-> LowerChar(word[k])]

\* ------------------------------------------------------------------------
\* _words_similar, _merge_overlapping_text, _combine_transcripts
\* ------------------------------------------------------------------------
MaxOverlapWords == 10
SimilarityPercent == 80

_words_similar(words1, words2) ==
    IF Len(words1) # Len(words2) THEN FALSE
    ELSE LET similar_count ==
                 Cardinality({k \in 1..Len(words1) : lower(words1[k]) = lower(words2[k])})
         IN  similar_count * 100 >= SimilarityPercent * Len(words1)

SmallestOverlap(prev_words, current_words, overlap_len) ==
    LET similar == {n \in 1..overlap_len :
                       _words_similar(SubSeq(prev_words, Len(prev_words) - n + 1, Len(prev_words)),
                                      SubSeq(current_words, 1, n))}
    IN  IF similar = {} THEN 0 ELSE CHOOSE n \in similar : \A m \in similar : n <= m

\* for overlap_len in range(max_overlap, 0, -1): the first similar one, else 0
RECURSIVE FirstOverlap(_, _, _)
FirstOverlap(prev_words, current_words, overlap_len) ==
    IF overlap_len = 0 THEN 0
    ELSE IF _words_similar(SubSeq(prev_words, Len(prev_words) - overlap_len + 1, Len(prev_words)),
                           SubSeq(current_words, 1, overlap_len))
    THEN overlap_len
    ELSE FirstOverlap(prev_words, current_words, overlap_len - 1)

Min3(a, b, c) == IF a <= b /\ a <= c THEN a ELSE IF b <= c THEN b ELSE c

_merge_overlapping_text(prev_text, current_text) ==
    LET prev_words == split(prev_text)
        current_words == split(current_text)
        max_overlap == Min3(MaxOverlapWords, Len(prev_words), Len(current_words))
        overlap_len == FirstOverlap(prev_words, current_words, max_overlap)
    IN  IF overlap_len = 0 THEN Absent
        ELSE Text(join(prev_words \o
                       SubSeq(current_words, overlap_len + 1, Len(current_words))))

\* transcripts.sort(key=lambda x: x["index"]), a stable sort
RECURSIVE sort(_)
sort(ts) ==
    IF Len(ts) = 0 THEN << >>
    ELSE LET rest == sort(SubSeq(ts, 1, Len(ts) - 1))
             x == ts[Len(ts)]
             k == Cardinality({j \in 1..Len(rest) : rest[j].index <= x.index})
         IN  SubSeq(rest, 1, k) \o <<x>> \o SubSeq(rest, k + 1, Len(rest))

\* the loop of lines 291-309 from segment i on
RECURSIVE CombineParts(_, _, _)
CombineParts(ts, k, combined_parts) ==
    IF k > Len(ts) THEN combined_parts
    ELSE IF k = 1 THEN CombineParts(ts, k + 1, <<ts[k].text>>)
    ELSE LET last == Len(combined_parts)
             merged_text == _merge_overlapping_text(combined_parts[last], ts[k].text)
         IN  IF ~merged_text.absent /\ Len(merged_text.text) > 0
             THEN CombineParts(ts, k + 1, [combined_parts EXCEPT ![last] = merged_text.text])
             ELSE CombineParts(ts, k + 1, Append(combined_parts, ts[k].text))

SingleTextStripped(ts) == strip(ts[1].text)

\* return transcripts[0]["text"]
SingleText(ts) == ts[1].text

_combine_transcripts(ts) ==
    IF Len(ts) = 0 THEN << >>
    ELSE IF Len(ts) = 1 THEN SingleText(ts)
    ELSE strip(join(CombineParts(sort(ts), 1, << >>)))

\* ------------------------------------------------------------------------
\* _combine_transcripts on lists of segments
\* ------------------------------------------------------------------------
MaxFirstChars == 4
MaxSecondChars == 3
MaxWords == 11

Alphabet == {"a", "b", " "}

Texts(n) == UNION {[1..m -> Alphabet] : m \in 1..n}

Segment(index, text) == [index |-> index, text |-> text]

\* n words, all equal to letter but the words m1 and m2, which are "b"
WordText(n, letter, m1, m2) ==
    join([k \in 1..n |-> IF k = m1 \/ k = m2 THEN <<"b">> ELSE <<letter>>])

SampleTexts ==
    {<<"x", " ", "A", " ", "B", " ", "C">>,
     <<"a", " ", "b", " ", "c", " ", "y">>,
     <<"c", " ", "y", " ", " ", "d">>,
     <<"d">>}

Orders == {p \in [1..3 -> 0..2] : \A a, b \in 1..3 : a # b => p[a] # p[b]}

SegmentLists ==
    {<< >>}
    \cup {<<Segment(0, t)>> : t \in Texts(MaxFirstChars)}
    \cup {<<Segment(0, t1), Segment(1, t2)>> :
             t1 \in Texts(MaxFirstChars), t2 \in Texts(MaxSecondChars)}
    \cup {<<Segment(0, WordText(n1, "A", 0, 0)), Segment(1, WordText(n2, "a", m1, m2))>> :
             n1 \in 1..MaxWords, n2 \in 1..MaxWords,
             m1 \in 0..MaxWords, m2 \in 0..MaxWords}
    \cup {<<Segment(p[1], t1), Segment(p[2], t2), Segment(p[3], t3)>> :
             p \in Orders, t1 \in SampleTexts, t2 \in SampleTexts, t3 \in SampleTexts}

CombineInit ==
    /\ NoRun
    /\ fn_pc = "combine_call"
    /\ fn_args \in [transcripts : SegmentLists]
    /\ fn_ret = << >>

CombineApply ==
    /\ fn_pc = "combine_call"
    /\ fn_ret' = _combine_transcripts(fn_args.transcripts)
    /\ fn_pc' = "combine_done"
    /\ UNCHANGED <<runVars, fn_args>>

CombineNext == CombineApply

CombineSpec == CombineInit /\ [][CombineNext]_vars

\* C13: combining a list of exactly one segment returns that segment's text
\* unchanged: no trimming, merging or re-joining.
SingleSegmentUnchanged ==
    (fn_pc = "combine_done" /\ Len(fn_args.transcripts) = 1) =>
        fn_ret = fn_args.transcripts[1].text

SingleSegmentUnchangedWitness ==
    /\ fn_pc = "combine_done"
    /\ Len(fn_args.transcripts) = 1
    /\ fn_args.transcripts[1].text = <<" ", "a", " ", " ">>
    /\ fn_ret = <<" ", "a", " ", " ">>

Sorted == sort(fn_args.transcripts)

\* the overlap lengths that qualify for prev and curr
Qualifying(prev_words, curr_words) ==
    {n \in 1..Min3(10, Len(prev_words), Len(curr_words)) :
        5 * Cardinality({k \in 1..n :
                lower(prev_words[Len(prev_words) - n + k]) = lower(curr_words[k])}) >= 4 * n}

\* the entries after curr has met the last entry: merged into it at the
\* largest qualifying overlap, or appended
Met(entries, curr) ==
    LET prev_words == split(entries[Len(entries)])
        curr_words == split(curr)
        q == Qualifying(prev_words, curr_words)
        largest == CHOOSE n \in q : \A m \in q : m <= n
    IN  IF q = {} THEN Append(entries, curr)
        ELSE [entries EXCEPT ![Len(entries)] =
                 join(prev_words \o SubSeq(curr_words, largest + 1, Len(curr_words)))]

\* C14 as stated: when several segments are combined, no inner whitespace run
\* of a segment text is collapsed or re-tokenised, whether or not an overlap
\* merge fires; so the first segment's text, trimmed, opens the result as is.
SpacingPreservedVerbatim ==
    (fn_pc = "combine_done" /\ Len(fn_args.transcripts) >= 2) =>
        LET first == strip(Sorted[1].text)
        IN  /\ Len(first) <= Len(fn_ret)
            /\ SubSeq(fn_ret, 1, Len(first)) = first

\* C18: each segment after the first meets the last accumulated entry with
\* k = min(10, |prev_words|, |curr_words|): it merges at the largest
\* overlap_len in 1..k whose words agree case-insensitively in at least 80%
\* of positions, giving prev_words + curr_words[overlap_len:], and is appended
\* as a new entry, joined by one space, when no overlap_len qualifies.
OverlapMergeLargest ==
    (fn_pc = "combine_done" /\ Len(fn_args.transcripts) >= 2) =>
        LET first == <<Sorted[1].text>>
            second == Met(first, Sorted[2].text)
            entries == IF Len(Sorted) = 2 THEN second ELSE Met(second, Sorted[3].text)
            q == Qualifying(split(Sorted[1].text), split(Sorted[2].text))
        IN  /\ fn_ret = strip(join(entries))
            /\ (Len(Sorted) = 2 /\ q = {}) =>
                   fn_ret = strip(Sorted[1].text \o <<" ">> \o Sorted[2].text)
            /\ (/\ Len(Sorted) = 2
                /\ Sorted[1].text = <<"x", " ", "A", " ", "B", " ", "C">>
                /\ Sorted[2].text = <<"a", " ", "b", " ", "c", " ", "y">>) =>
                   fn_ret = <<"x", " ", "A", " ", "B", " ", "C", " ", "y">>

OverlapMergeLargestWitness ==
    /\ fn_pc = "combine_done"
    /\ Len(fn_args.transcripts) = 2
    /\ Len(split(fn_args.transcripts[1].text)) = 11
    /\ Len(split(fn_args.transcripts[2].text)) = 11
    /\ Len(split(fn_ret)) = 12
    /\ Cardinality({k \in 1..10 : split(fn_args.transcripts[2].text)[k] = <<"b">>}) = 2

\* ------------------------------------------------------------------------
\* _process_timestamped_response: punctuation repair from the segments of the
\* timestamp-annotated response; times are in tenths of a second
\* ------------------------------------------------------------------------
MaxSegments == 2

TicksPerSecond == 10
LongPause == 15
MediumPause == 8
ShortPause == 3

end_punctuation_chars ==
    {"U+3002", "U+FF0C", "U+FF01", "U+FF1F", "U+FF1B", "U+FF1A", "U+3001"}

_ends_with_punctuation(text) ==
    IF Len(text) = 0 THEN FALSE ELSE text[Len(text)] \in end_punctuation_chars

PauseMarkInclusive(gap) ==
    IF gap >= LongPause THEN <<"U+3002">>
    ELSE IF gap >= MediumPause THEN <<"U+FF0C">>
    ELSE IF gap >= ShortPause THEN <<"U+3001">>
    ELSE << >>

\* lines 491-496: the mark for a pause of gap tenths of a second
PauseMark(gap) ==
    IF gap > LongPause THEN <<"U+3002">>
    ELSE IF gap > MediumPause THEN <<"U+FF0C">>
    ELSE IF gap > ShortPause THEN <<"U+3001">>
    ELSE << >>

\* line 500: the mark of the last segment of the list
LastMark == <<"U+3002">>

SeparatorNone(k, processed_text) == << >>

\* lines 477-478: a space before every segment but the first, unless the
\* accumulated text is empty or ends with a space
Separator(k, processed_text) ==
    IF k > 1 /\ Len(processed_text) > 0 /\ processed_text[Len(processed_text)] # " "
    THEN <<" ">>
    ELSE << >>

\* the loop of lines 471-502 from segment k on (k = i + 1)
RECURSIVE RepairLoop(_, _, _)
RepairLoop(segments, k, processed_text) ==
    IF k > Len(segments) THEN processed_text
    ELSE LET text == strip(segments[k].text)
             spaced == processed_text \o Separator(k, processed_text)
         IN  IF Len(text) = 0 THEN RepairLoop(segments, k + 1, processed_text)
             ELSE IF _ends_with_punctuation(text)
             THEN \* line 482 appends text, and line 502 appends it again
                  RepairLoop(segments, k + 1, (spaced \o text) \o text)
             ELSE IF k < Len(segments)
             THEN RepairLoop(segments, k + 1,
                      spaced \o text \o PauseMark(segments[k + 1].start - segments[k].end))
             ELSE RepairLoop(segments, k + 1, spaced \o text \o LastMark)

_process_timestamped_response(response) ==
    IF _has_adequate_punctuation(response.text) THEN response.text
    ELSE IF Len(response.segments) = 0 THEN response.text
    ELSE LET processed_text == RepairLoop(response.segments, 1, << >>)
         IN  IF Len(processed_text) > 0 THEN processed_text ELSE response.text

\* ------------------------------------------------------------------------
\* _process_timestamped_response on responses with up to MaxSegments segments
\* ------------------------------------------------------------------------
SegmentTexts ==
    {<< >>,
     <<"h", "e", "l", "l", "o">>,
     <<"w", "o", "r", "l", "d">>,
     <<" ", "o", "k", "U+FF0C">>,
     <<"y", "e", "s", "U+3001">>,
     <<"n", "o", ".", " ">>}

Gaps == {3, 4, 8, 9, 15, 20}

PlainTexts ==
    {<<"h", "e", "l", "l", "o", "w", "o", "r", "l", "d">>,
     MakeText(MinPunctuationLen, "U+3002", 1, 0)}

\* segments of one second each, segment k + 1 starting gaps[k] after segment k
RECURSIVE Timed(_, _, _, _)
Timed(texts, gaps, k, at) ==
    IF k > Len(texts) THEN << >>
    ELSE <<[text |-> texts[k], start |-> at, end |-> at + TicksPerSecond]>>
         \o Timed(texts, gaps, k + 1,
                  at + TicksPerSecond + (IF k <= Len(gaps) THEN gaps[k] ELSE 0))

Responses ==
    UNION {{[text |-> plain, segments |-> Timed(texts, gaps, 1, 0)] :
               plain \in PlainTexts,
               texts \in [1..n -> SegmentTexts],
               gaps \in [1..(IF n = 0 THEN 0 ELSE n - 1) -> Gaps]} :
           n \in 0..MaxSegments}

RepairInit ==
    /\ NoRun
    /\ fn_pc = "repair_call"
    /\ fn_args \in Responses
    /\ fn_ret = << >>

RepairApply ==
    /\ fn_pc = "repair_call"
    /\ fn_ret' = _process_timestamped_response(fn_args)
    /\ fn_pc' = "repair_done"
    /\ UNCHANGED <<runVars, fn_args>>

RepairNext == RepairApply

RepairSpec == RepairInit /\ [][RepairNext]_vars

\* the repair synthesises its output: the plain text is not adequate and the
\* response has segments
Synthesised ==
    /\ fn_pc = "repair_done"
    /\ ~_has_adequate_punctuation(fn_args.text)
    /\ Len(fn_args.segments) > 0

Trimmed(k) == strip(fn_args.segments[k].text)

EndsInMark(t) ==
    Len(t) > 0 /\ t[Len(t)] \in {"U+3002", "U+FF0C", "U+FF01", "U+FF1F", "U+FF1B",
                                  "U+FF1A", "U+3001"}

\* what segment k adds to the output when a segment that already ends in a
\* mark adds its text copies times
Piece(k, copies) ==
    LET t == Trimmed(k)
        gap == fn_args.segments[k + 1].start - fn_args.segments[k].end
    IN  IF Len(t) = 0 THEN << >>
        ELSE IF EndsInMark(t) THEN (IF copies = 1 THEN t ELSE t \o t)
        ELSE IF k = Len(fn_args.segments) THEN t \o <<"U+3002">>
        ELSE IF gap > 15 THEN t \o <<"U+3002">>
        ELSE IF gap > 8 THEN t \o <<"U+FF0C">>
        ELSE IF gap > 3 THEN t \o <<"U+3001">>
        ELSE t

NonEmptyText(t) == Len(t) > 0

Pieces(copies) ==
    SelectSeq([k \in 1..Len(fn_args.segments) |-> Piece(k, copies)], NonEmptyText)

\* C21: a non-final segment whose text does not end in a recognised mark gets
\* its mark from gap = next start - own end: a full stop for gap > 1.5 s, a
\* comma for 0.8 < gap <= 1.5, the light pause mark for 0.3 < gap <= 0.8 and
\* no mark for gap <= 0.3 (the last segment gets a full stop, and a segment
\* that already ends in a mark adds its text the way the loop appends it).
PauseMarkByGap ==
    (Synthesised /\ Pieces(2) # << >>) => fn_ret = join(Pieces(2))

PauseMarkByGapWitness ==
    /\ Synthesised
    /\ Len(fn_args.segments) = 2
    /\ Trimmed(1) = <<"h", "e", "l", "l", "o">>
    /\ Trimmed(2) = <<"w", "o", "r", "l", "d">>
    /\ fn_args.segments[2].start - fn_args.segments[1].end = 15
    /\ fn_ret = <<"h", "e", "l", "l", "o", "U+FF0C", " ", "w", "o", "r", "l", "d", "U+3002">>

\* C22: when the output is synthesised from a segments list with at least one
\* non-empty segment text, the repaired text ends with a full stop.
LastSegmentFullStop ==
    (Synthesised /\ \E k \in 1..Len(fn_args.segments) : Len(Trimmed(k)) > 0) =>
        (Len(fn_ret) > 0 /\ fn_ret[Len(fn_ret)] = "U+3002")

\* C23: a segment whose text already ends in a recognised mark is appended
\* as-is: its text occurs once in the output, at its position, with no mark
\* added and no duplication.
MarkedSegmentAppendedOnce ==
    (Synthesised /\ Pieces(1) # << >>) => fn_ret = join(Pieces(1))

HelloWorld ==
    /\ Synthesised
    /\ Len(fn_args.segments) = 2
    /\ fn_args.segments[1].text = <<"h", "e", "l", "l", "o">>
    /\ fn_args.segments[1].end = 10
    /\ fn_args.segments[2].text = <<"w", "o", "r", "l", "d">>
    /\ fn_args.segments[2].start = 30

\* C24 as stated: the segments hello (end 1.0) and world (start 3.0) of a
\* response without adequate plain text give exactly hello, full stop, world,
\* full stop, with no space.
HelloWorldNoSpace ==
    HelloWorld =>
        fn_ret = <<"h", "e", "l", "l", "o", "U+3002", "w", "o", "r", "l", "d", "U+3002">>

\* C24: the segments hello (end 1.0) and world (start 3.0) of a response
\* without adequate plain text give hello, full stop, one space, world, full
\* stop.
HelloWorldOneSpace ==
    HelloWorld =>
        fn_ret = <<"h", "e", "l", "l", "o", "U+3002", " ", "w", "o", "r", "l", "d", "U+3002">>

HelloWorldOneSpaceWitness ==
    /\ HelloWorld
    /\ Len(fn_ret) = 13
    /\ fn_ret[7] = " "

\* ------------------------------------------------------------------------
\* split_audio_file alone: the run up to the return of split_audio_file, with
\* the while loop scheduled until it exits (a Python loop keeps running)
\* ------------------------------------------------------------------------
SplitNext == Enter \/ SplitMkdir \/ SplitRead \/ SplitLoop

SplitSpec == Init /\ [][SplitNext]_vars /\ WF_vars(SplitLoop)

\* one iteration of the while loop that does not leave it
LoopAdvances ==
    (pc = "split_loop" /\ pc' = "split_loop") =>
        /\ overlap_samples < chunk_samples
        /\ chunk_start' = chunk_start + (chunk_samples - overlap_samples)
        /\ chunk_start' > chunk_start
        /\ chunk_start' >= 0

\* the iteration that returns the chunk list
LoopExitsAtEnd ==
    (pc = "split_loop" /\ pc' = "post_split" /\ ~split_failed' /\ frames > 0) =>
        /\ chunk_start >= 0
        /\ chunk_start < frames
        /\ chunk_start + chunk_samples >= frames
        /\ \E f \in disk' : f = <<chunk_path(chunk_index), chunk_start, frames>>

\* C25: the chunk loop of split_audio_file terminates for every source
\* length: an iteration that does not reach the source end advances
\* chunk_start by chunk_samples - overlap_samples > 0, chunk_start is never
\* negative, and the loop exits in the iteration whose chunk_end is the
\* source length.
SplitLoopTerminates ==
    /\ [][LoopAdvances /\ LoopExitsAtEnd]_vars
    /\ [](chunk_start >= 0)
    /\ (pc = "split_loop") ~> (pc = "post_split")

SplitLoopTerminatesWitness ==
    /\ pc = "post_split"
    /\ ~split_failed
    /\ Len(chunk_files) = 3
    /\ chunk_start > 0
    /\ \E f \in disk : f = <<chunk_path(2), chunk_start, frames>>

Paths(files) == {f[1] : f \in files}

\* transcribe_file has returned for the file
Attempted(path) == \E k \in 1..Len(tf_returns) : tf_returns[k].file = path

\* the files the run submits: every chunk, or the source alone when
\* split_audio_file returned a single file (lines 224-226)
Submitted == IF Len(chunk_files) = 1 THEN {SourcePath} ELSE Range(chunk_files)

\* a step that deletes a file is a step of the finally block, taken when
\* transcribe_file has returned for every submitted file
DeletionAfterAttempts ==
    (Paths(disk) \ Paths(disk') # {}) =>
        /\ pc = "finally"
        /\ chunk_files_bound
        /\ net = {}
        /\ \A path \in Submitted : Attempted(path)

\* C26: no chunk file is deleted before the transcription attempt of every
\* chunk has finished: files and the temp directory are removed in the
\* finally block only, after the chunk loop and the combine step, and no
\* request in flight reads a file that is not on disk.
CleanupAfterAttempts ==
    /\ [][DeletionAfterAttempts]_vars
    /\ [][(temp_dir_exists /\ ~temp_dir_exists') => pc = "finally"]_vars
    /\ [](\A r \in net : exists(r.file))

CleanupAfterAttemptsWitness ==
    /\ pc = "done"
    /\ MultiChunk
    /\ Len(chunk_files) = 3
    /\ \A path \in Submitted : Attempted(path) /\ ~exists(path)
    /\ ~temp_dir_exists

SecondaryFailed ==
    SecondaryCalls = 1 /\ (fn_ret.improved.absent \/ Len(fn_ret.improved.text) = 0)

\* C27: a failed secondary call (an error, an unreadable response or an empty
\* result) never turns a successful primary transcription into a failure:
\* with a non-empty primary text transcribe_file returns a non-empty text,
\* and the primary text itself when the secondary call failed.
SecondaryFailureKeepsPrimary ==
    (fn_pc = "tf_done" /\ ~fn_args.primary.absent /\ Len(fn_args.primary.text) > 0) =>
        /\ ~fn_ret.value.absent
        /\ Len(fn_ret.value.text) > 0
        /\ SecondaryFailed => fn_ret.value.text = fn_args.primary.text

SecondaryFailureKeepsPrimaryWitness ==
    /\ fn_pc = "tf_done"
    /\ ~fn_args.primary.absent
    /\ Len(fn_args.primary.text) = 5
    /\ SecondaryCalls = 1
    /\ fn_ret.improved.absent
    /\ fn_ret.value = Text(fn_args.primary.text)

\* ------------------------------------------------------------------------
\* RecordingManager: the main thread in start_recording, the listener thread
\* of each call in _monitor_input, and the SIGINT handler, which runs on the
\* main thread between two of its statements; stop_recording is two
\* statements, and the other threads may run between them
\* ------------------------------------------------------------------------
serviceVars == <<file_size, frames, sample_rate, language, disk, temp_dir_exists,
                 pc, chunk_duration, chunk_samples, overlap_samples, chunk_start,
                 chunk_index, split_files, chunk_files, chunk_files_bound, i,
                 transcripts, chunk_transcript, net, request_log, pause, tf_file,
                 tf_ret, transcript, tf_value, tf_returns, result, source_existed,
                 split_failed, io_error, unlink_failed, fn_pc, fn_args, fn_ret>>

\* the max_duration argument, in periods of the wait loop (time.sleep(0.1))
max_duration == MaxDuration

\* start_recording is between its first statement and its return
Active == main_pc \notin {"idle", "returned"}

\* while self.is_recording and not self.stop_event.is_set()
KeepsRunning(rec, ev) == rec /\ ~ev

AfterStopUnchanged(rec) == rec

\* self.is_recording = False
AfterStop(rec) == FALSE

\* the calls during which is_recording has been cleared by stop_recording
Marked == IF Active THEN stopped \cup {calls} ELSE stopped

\* lines 85-90: the call, refused while a recording is in progress
StartRecording ==
    /\ handler_pc = "idle"
    /\ main_pc \in {"idle", "returned"}
    /\ calls < MaxCalls
    /\ calls' = calls + 1
    /\ IF is_recording
       THEN /\ main_pc' = "returned"
            /\ UNCHANGED is_recording
       ELSE /\ is_recording' = TRUE
            /\ main_pc' = "clear"
    /\ UNCHANGED <<serviceVars, stop_event, input_pc, handler_pc, installed,
                   elapsed, signals, stopped>>

\* lines 91-99: stop_event.clear() and the installation of signal_handler
Clear ==
    /\ handler_pc = "idle"
    /\ main_pc = "clear"
    /\ stop_event' = FALSE
    /\ installed' = TRUE
    /\ main_pc' = "open"
    /\ UNCHANGED <<serviceVars, is_recording, input_pc, handler_pc, elapsed,
                   calls, signals, stopped>>

\* lines 102-108: the input stream opens, or raises into lines 140-143
Open ==
    /\ handler_pc = "idle"
    /\ main_pc = "open"
    /\ \E ok \in BOOLEAN :
         IF ok
         THEN /\ main_pc' = "spawn"
              /\ UNCHANGED is_recording
         ELSE /\ is_recording' = FALSE
              /\ main_pc' = "returned"
    /\ UNCHANGED <<serviceVars, stop_event, input_pc, handler_pc, installed,
                   elapsed, calls, signals, stopped>>

\* lines 110-116: the listener thread of this call starts
Spawn ==
    /\ handler_pc = "idle"
    /\ main_pc = "spawn"
    /\ input_pc' = [input_pc EXCEPT ![calls] = "test"]
    /\ elapsed' = 0
    /\ main_pc' = "loop_test"
    /\ UNCHANGED <<serviceVars, is_recording, stop_event, handler_pc, installed,
                   calls, signals, stopped>>

\* line 118: the test of the wait loop
LoopTest ==
    /\ handler_pc = "idle"
    /\ main_pc = "loop_test"
    /\ main_pc' = IF KeepsRunning(is_recording, stop_event) THEN "loop_body" ELSE "join"
    /\ UNCHANGED <<serviceVars, is_recording, stop_event, input_pc, handler_pc,
                   installed, elapsed, calls, signals, stopped>>

\* lines 119-132: the timeout calls stop_recording, else the loop sleeps
LoopBody ==
    /\ handler_pc = "idle"
    /\ main_pc = "loop_body"
    /\ IF elapsed >= max_duration
       THEN /\ main_pc' = "stop_a"
            /\ UNCHANGED elapsed
       ELSE /\ elapsed' = elapsed + 1
            /\ main_pc' = "loop_test"
    /\ UNCHANGED <<serviceVars, is_recording, stop_event, input_pc, handler_pc,
                   installed, calls, signals, stopped>>

\* line 147 in the main thread
MainStopA ==
    /\ handler_pc = "idle"
    /\ main_pc = "stop_a"
    /\ is_recording' = AfterStop(is_recording)
    /\ stopped' = Marked
    /\ main_pc' = "stop_b"
    /\ UNCHANGED <<serviceVars, stop_event, input_pc, handler_pc, installed,
                   elapsed, calls, signals>>

\* line 148 in the main thread, then the break of line 131
MainStopB ==
    /\ handler_pc = "idle"
    /\ main_pc = "stop_b"
    /\ stop_event' = TRUE
    /\ main_pc' = "join"
    /\ UNCHANGED <<serviceVars, is_recording, input_pc, handler_pc, installed,
                   elapsed, calls, signals, stopped>>

\* lines 135-138: join(timeout=1.0) ends when the listener has exited or
\* when the timeout expires, then start_recording returns
Join ==
    /\ handler_pc = "idle"
    /\ main_pc = "join"
    /\ \E timedOut \in BOOLEAN : timedOut \/ input_pc[calls] = "exited"
    /\ main_pc' = "returned"
    /\ UNCHANGED <<serviceVars, is_recording, stop_event, input_pc, handler_pc,
                   installed, elapsed, calls, signals, stopped>>

MainStep ==
    Clear \/ Open \/ Spawn \/ LoopTest \/ LoopBody \/ MainStopA \/ MainStopB \/ Join

\* line 62: the test of the listener loop
MonitorTest(c) ==
    /\ input_pc[c] = "test"
    /\ input_pc' = [input_pc EXCEPT ![c] =
           IF KeepsRunning(is_recording, stop_event) THEN "select" ELSE "exited"]
    /\ UNCHANGED <<serviceVars, is_recording, stop_event, main_pc, handler_pc,
                   installed, elapsed, calls, signals, stopped>>

\* lines 64-66: select times out, or a line is read at once, or readline
\* blocks on an unfinished line
MonitorSelect(c) ==
    /\ input_pc[c] = "select"
    /\ \E next \in {"test", "stop_a", "readline"} :
         input_pc' = [input_pc EXCEPT ![c] = next]
    /\ UNCHANGED <<serviceVars, is_recording, stop_event, main_pc, handler_pc,
                   installed, elapsed, calls, signals, stopped>>

\* line 65: the blocked readline returns a line, 'q' or another
MonitorReadline(c) ==
    /\ input_pc[c] = "readline"
    /\ \E next \in {"test", "stop_a"} :
         input_pc' = [input_pc EXCEPT ![c] = next]
    /\ UNCHANGED <<serviceVars, is_recording, stop_event, main_pc, handler_pc,
                   installed, elapsed, calls, signals, stopped>>

\* line 147 in the listener thread
MonitorStopA(c) ==
    /\ input_pc[c] = "stop_a"
    /\ is_recording' = AfterStop(is_recording)
    /\ stopped' = Marked
    /\ input_pc' = [input_pc EXCEPT ![c] = "stop_b"]
    /\ UNCHANGED <<serviceVars, stop_event, main_pc, handler_pc, installed,
                   elapsed, calls, signals>>

\* line 148 in the listener thread, then the break of line 69
MonitorStopB(c) ==
    /\ input_pc[c] = "stop_b"
    /\ stop_event' = TRUE
    /\ input_pc' = [input_pc EXCEPT ![c] = "exited"]
    /\ UNCHANGED <<serviceVars, is_recording, main_pc, handler_pc, installed,
                   elapsed, calls, signals, stopped>>

MonitorStep(c) ==
    \/ MonitorTest(c)
    \/ MonitorSelect(c)
    \/ MonitorReadline(c)
    \/ MonitorStopA(c)
    \/ MonitorStopB(c)

\* SIGINT is delivered while signal_handler is installed (lines 95-99)
Sigint ==
    /\ installed
    /\ handler_pc = "idle"
    /\ signals < MaxSignals
    /\ signals' = signals + 1
    /\ handler_pc' = "stop_a"
    /\ UNCHANGED <<serviceVars, is_recording, stop_event, main_pc, input_pc,
                   installed, elapsed, calls, stopped>>

\* line 147 in the handler
HandlerStopA ==
    /\ handler_pc = "stop_a"
    /\ is_recording' = AfterStop(is_recording)
    /\ stopped' = Marked
    /\ handler_pc' = "stop_b"
    /\ UNCHANGED <<serviceVars, stop_event, main_pc, input_pc, installed,
                   elapsed, calls, signals>>

\* line 148 in the handler
HandlerStopB ==
    /\ handler_pc = "stop_b"
    /\ stop_event' = TRUE
    /\ handler_pc' = "idle"
    /\ UNCHANGED <<serviceVars, is_recording, main_pc, input_pc, installed,
                   elapsed, calls, signals, stopped>>

HandlerStep == HandlerStopA \/ HandlerStopB

RecordInit ==
    /\ NoRun
    /\ fn_pc = "none"
    /\ fn_args = << >>
    /\ fn_ret = << >>

RecordNext ==
    \/ StartRecording
    \/ MainStep
    \/ \E c \in 1..MaxCalls : MonitorStep(c)
    \/ Sigint
    \/ HandlerStep

\* every thread that can run keeps running, and a blocked readline returns
RecordSpec ==
    /\ RecordInit
    /\ [][RecordNext]_vars
    /\ WF_vars(MainStep)
    /\ WF_vars(HandlerStep)
    /\ \A c \in 1..MaxCalls : WF_vars(MonitorStep(c))

\* start_recording call c has returned
Returned(c) == calls > c \/ (calls = c /\ main_pc = "returned")

====
